---------------------------- MODULE Spec2Model ----------------------------
(***************************************************************************)
(* A model of object_store.ObjectStore (object_store/__init__.py): the     *)
(* Python class that converts loosely typed locations and byte inputs and  *)
(* delegates to the native store _ObjectStore.                             *)
(*                                                                         *)
(* A raw string is a sequence of one-character strings, a path segment is  *)
(* a non-empty raw string without the delimiter, a Path is a sequence of   *)
(* segments.  The store is a function from the Paths that hold an object   *)
(* to the bytes of the object.  ObjectMeta is modelled by its location and *)
(* size; last_modified plays no part in any operation modelled here.       *)
(*                                                                         *)
(* The native class _ObjectStore and the native type Path are imported     *)
(* from object_store._internal, which is not part of the Python sources;   *)
(* their definitions below follow sections 4.1 and 4.2 of the              *)
(* specification.                                                          *)
(***************************************************************************)
EXTENDS Integers, Sequences, FiniteSets, TLC

VARIABLES store, last, inflight, racers

vars == <<store, last, inflight, racers>>

\* Longest byte buffer a caller passes.
MaxLen == 2

DELIMITER == "/"

-----------------------------------------------------------------------------
(* Path (object_store._internal.Path)                                      *)

RECURSIVE Split(_)
\* raw split on the delimiter, empty pieces kept
Split(raw) ==
    IF raw = <<>> THEN << <<>> >>
    ELSE LET rest == Split(Tail(raw))
         IN  IF Head(raw) = DELIMITER
             THEN << <<>> >> \o rest
             ELSE << <<Head(raw)>> \o Head(rest) >> \o Tail(rest)

NonEmptySegment(seg) == seg # <<>>

\* Path(raw): split on "/", the empty segments discarded
Path(raw) == SelectSeq(Split(raw), NonEmptySegment)

RECURSIVE Join(_)
\* DELIMITER.join(segments)
Join(segments) ==
    IF segments = <<>> THEN <<>>
    ELSE IF Len(segments) = 1 THEN Head(segments)
    ELSE Head(segments) \o <<DELIMITER>> \o Join(Tail(segments))

\* prefix.is_prefix_of(other): other starts with all the segments of prefix
is_prefix_of(prefix, other) ==
    /\ Len(prefix) <= Len(other)
    /\ \A i \in 1..Len(prefix) : prefix[i] = other[i]

CharCode(c) ==
    CASE c = "/" -> 0 [] c = "a" -> 1 [] c = "b" -> 2 [] c = "c" -> 3

RECURSIVE SegmentLess(_, _)
SegmentLess(s, t) ==
    IF t = <<>> THEN FALSE
    ELSE IF s = <<>> THEN TRUE
    ELSE IF Head(s) # Head(t) THEN CharCode(Head(s)) < CharCode(Head(t))
    ELSE SegmentLess(Tail(s), Tail(t))

RECURSIVE PathLess(_, _)
\* segment-wise lexicographic order of Paths
PathLess(p, q) ==
    IF q = <<>> THEN FALSE
    ELSE IF p = <<>> THEN TRUE
    ELSE IF Head(p) # Head(q) THEN SegmentLess(Head(p), Head(q))
    ELSE PathLess(Tail(p), Tail(q))

RECURSIVE SortedPaths(_)
\* the Paths of a set in ascending order
SortedPaths(S) ==
    IF S = {} THEN <<>>
    ELSE LET m == CHOOSE x \in S : \A y \in S \ {x} : PathLess(x, y)
         IN  <<m>> \o SortedPaths(S \ {m})

-----------------------------------------------------------------------------
(* Conversions of object_store/__init__.py                                 *)

\* PathLike = str | List[str] | Path
_as_path(raw) ==
    CASE raw.kind = "str"  -> Path(raw.val)
      [] raw.kind = "list" -> Path(Join(raw.val))
      [] raw.kind = "Path" -> raw.val

\* as _as_bytes with BytesIO.getvalue() in the place of BytesIO.read()
_as_bytes_getvalue(raw) == raw.val

\* BytesLike = bytes | BytesIO; BytesIO.read() returns what follows the
\* stream's position
_as_bytes(raw) ==
    CASE raw.kind = "bytes"   -> raw.val
      [] raw.kind = "BytesIO" -> SubSeq(raw.val, raw.pos + 1, Len(raw.val))

\* Python's truth value of a prefix argument ("if prefix"): None, "" and []
\* are false; a Path object is taken to be true, the root Path included
Truthy(prefix) ==
    CASE prefix.kind = "None" -> FALSE
      [] prefix.kind = "str"  -> prefix.val # <<>>
      [] prefix.kind = "list" -> prefix.val # <<>>
      [] prefix.kind = "Path" -> TRUE

\* prefix_ = _as_path(prefix) if prefix else None; None is the empty set
as_prefix(prefix) == IF Truthy(prefix) THEN {_as_path(prefix)} ELSE {}

-----------------------------------------------------------------------------
(* The native store (object_store._internal.ObjectStore).  Every operation *)
(* takes the store and returns the store it leaves, a status ("ok" or the  *)
(* error raised) and the value returned.                                   *)

Result(self, status, value) ==
    [store |-> self, status |-> status, value |-> value]

ObjectMetaOf(self, p) == [location |-> p, size |-> Len(self[p])]

\* self with the object at p created or replaced by data
WithObject(self, p, data) ==
    [q \in (DOMAIN self) \cup {p} |-> IF q = p THEN data ELSE self[q]]

\* self without the object at p
WithoutObject(self, p) == [q \in (DOMAIN self) \ {p} |-> self[q]]

_ObjectStore_head(self, p) ==
    IF p \in DOMAIN self
    THEN Result(self, "ok", ObjectMetaOf(self, p))
    ELSE Result(self, "NotFound", <<>>)

_ObjectStore_get(self, p) ==
    IF p \in DOMAIN self
    THEN Result(self, "ok", self[p])
    ELSE Result(self, "NotFound", <<>>)

_ObjectStore_get_range(self, p, start, length) ==
    IF p \notin DOMAIN self THEN Result(self, "NotFound", <<>>)
    ELSE IF start < 0 \/ length < 0 \/ start + length > Len(self[p])
    THEN Result(self, "InvalidRange", <<>>)
    ELSE Result(self, "ok", [i \in 1..length |-> self[p][start + i]])

_ObjectStore_put(self, p, data) ==
    Result(WithObject(self, p, data), "ok", <<>>)

_ObjectStore_delete(self, p) ==
    IF p \in DOMAIN self
    THEN Result(WithoutObject(self, p), "ok", <<>>)
    ELSE Result(self, "NotFound", <<>>)

\* the Paths of the objects under an optional prefix
Under(self, prefix_) ==
    {p \in DOMAIN self : \A q \in prefix_ : is_prefix_of(q, p)}

_ObjectStore_list(self, prefix_) ==
    LET found == SortedPaths(Under(self, prefix_))
    IN  Result(self, "ok",
               [i \in 1..Len(found) |-> ObjectMetaOf(self, found[i])])

_ObjectStore_list_with_delimiter(self, prefix_) ==
    LET depth    == IF prefix_ = {} THEN 1
                    ELSE Len(CHOOSE q \in prefix_ : TRUE) + 1
        under    == Under(self, prefix_)
        leaves   == SortedPaths({p \in under : Len(p) = depth})
        children == {SubSeq(p, 1, depth) : p \in {r \in under : Len(r) > depth}}
    IN  Result(self, "ok",
               [objects |-> [i \in 1..Len(leaves) |->
                                ObjectMetaOf(self, leaves[i])],
                common_prefixes |-> SortedPaths(children)])

_ObjectStore_copy(self, src, dst) ==
    IF src \in DOMAIN self
    THEN Result(WithObject(self, dst, self[src]), "ok", <<>>)
    ELSE Result(self, "NotFound", <<>>)

\* the test of dst and the write of dst are one step of the store
_ObjectStore_copy_if_not_exists(self, src, dst) ==
    IF dst \in DOMAIN self THEN Result(self, "AlreadyExists", <<>>)
    ELSE IF src \notin DOMAIN self THEN Result(self, "NotFound", <<>>)
    ELSE Result(WithObject(self, dst, self[src]), "ok", <<>>)

\* rename is a copy and then a delete of the source, two steps of the
\* store: this is the copy, and the call stays in flight when it succeeds
_ObjectStore_rename(self, src, dst) ==
    [op |-> "rename", src |-> src, dst |-> dst,
     step |-> _ObjectStore_copy(self, src, dst)]

\* rename_if_not_exists is a copy_if_not_exists and then a delete of the
\* source
_ObjectStore_rename_if_not_exists(self, src, dst) ==
    [op |-> "rename_if_not_exists", src |-> src, dst |-> dst,
     step |-> _ObjectStore_copy_if_not_exists(self, src, dst)]

-----------------------------------------------------------------------------
(* class ObjectStore(_ObjectStore)                                         *)

head(self, location) == _ObjectStore_head(self, _as_path(location))

get(self, location) == _ObjectStore_get(self, _as_path(location))

\* as get_range with its third argument taken for the end of the range
get_range_to_end(self, location, start, length) ==
    _ObjectStore_get_range(self, _as_path(location), start, length - start)

get_range(self, location, start, length) ==
    _ObjectStore_get_range(self, _as_path(location), start, length)

put(self, location, bytes) ==
    _ObjectStore_put(self, _as_path(location), _as_bytes(bytes))

\* as delete with the call of head in the place of the call of delete
delete_as_head(self, location) == _ObjectStore_head(self, _as_path(location))

delete(self, location) == _ObjectStore_delete(self, _as_path(location))

\* as list with the prefix left out of the call
list_unfiltered(self, prefix) == _ObjectStore_list(self, {})

list(self, prefix) == _ObjectStore_list(self, as_prefix(prefix))

\* as list_with_delimiter with the prefix left out of the call
list_with_delimiter_unfiltered(self, prefix) ==
    _ObjectStore_list_with_delimiter(self, {})

list_with_delimiter(self, prefix) ==
    _ObjectStore_list_with_delimiter(self, as_prefix(prefix))

\* as copy with src and dst exchanged
copy_swapped(self, src, dst) ==
    _ObjectStore_copy(self, _as_path(dst), _as_path(src))

copy(self, src, dst) ==
    _ObjectStore_copy(self, _as_path(src), _as_path(dst))

\* as copy_if_not_exists with the call of copy in its place
copy_if_not_exists_overwrites(self, src, dst) ==
    _ObjectStore_copy(self, _as_path(src), _as_path(dst))

copy_if_not_exists(self, src, dst) ==
    _ObjectStore_copy_if_not_exists(self, _as_path(src), _as_path(dst))

\* as rename with src and dst exchanged
rename_swapped(self, src, dst) ==
    _ObjectStore_rename(self, _as_path(dst), _as_path(src))

\* as rename with the call of rename_if_not_exists in its place
rename_conditional(self, src, dst) ==
    _ObjectStore_rename_if_not_exists(self, _as_path(src), _as_path(dst))

rename(self, src, dst) ==
    _ObjectStore_rename(self, _as_path(src), _as_path(dst))

\* as rename_if_not_exists with the call of rename in its place
rename_if_not_exists_overwrites(self, src, dst) ==
    _ObjectStore_rename(self, _as_path(src), _as_path(dst))

rename_if_not_exists(self, src, dst) ==
    _ObjectStore_rename_if_not_exists(self, _as_path(src), _as_path(dst))

-----------------------------------------------------------------------------
(* The arguments callers pass                                               *)

Str(raw)      == [kind |-> "str", val |-> raw]
SegmentList(segments) == [kind |-> "list", val |-> segments]
PathValue(p)  == [kind |-> "Path", val |-> p]
None          == [kind |-> "None", val |-> <<>>]

\* the three Paths objects are stored at: ab, a/b and a/b/c
PathAB   == << <<"a", "b">> >>
PathA_B  == << <<"a">>, <<"b">> >>
PathA_B_C == << <<"a">>, <<"b">>, <<"c">> >>

\* locations of objects: "ab", "/a//b/", ["a/b", "c"] and Path("a/b")
Locations ==
    { Str(<<"a", "b">>),
      Str(<<"/", "a", "/", "/", "b", "/">>),
      SegmentList(<< <<"a", "/", "b">>, <<"c">> >>),
      PathValue(PathA_B) }

\* prefixes: None, "", "/", "a", "a/b", [], ["a", "b"] and Path("/")
Prefixes ==
    { None,
      Str(<<>>),
      Str(<<"/">>),
      Str(<<"a">>),
      Str(<<"a", "/", "b">>),
      SegmentList(<<>>),
      SegmentList(<< <<"a">>, <<"b">> >>),
      PathValue(<<>>) }

\* the buffer of the bytes 1, 2, ..., n
Buffer(n) == [i \in 1..n |-> i]

\* bytes of every length, and a BytesIO stream at every position
BytesLikes ==
    {[kind |-> "bytes", val |-> Buffer(n), pos |-> 0] : n \in 0..MaxLen}
    \cup {[kind |-> "BytesIO", val |-> Buffer(MaxLen), pos |-> k] :
             k \in 0..MaxLen}

\* start and length of a range read, negative and too large included
Offsets == (0 - 1)..(MaxLen + 1)

-----------------------------------------------------------------------------
(* State: the objects of the store, the call made last with its arguments  *)
(* and its outcome, the rename in flight between its copy and its delete,  *)
(* and the calls of copy_if_not_exists that two callers make at the same   *)
(* time.                                                                   *)

Callers == {"c1", "c2"}

NoBytes == [kind |-> "none", val |-> <<>>, pos |-> 0]

\* touched: another caller has written or deleted the source or the
\* destination of the rename in flight since its copy
Idle == [op |-> "idle", src |-> <<>>, dst |-> <<>>, touched |-> FALSE]

\* a caller of copy_if_not_exists: before is the store when it called,
\* overlaps the callers whose call was in progress during its own
Resting ==
    [pc |-> "idle", src |-> None, dst |-> None, status |-> "none",
     before |-> <<>>, overlaps |-> {}]

\* no call is in flight
Quiet == inflight = Idle /\ \A c \in Callers : racers[c].pc = "idle"

Called(op, status, src, dst, bytes, value) ==
    [op |-> op, status |-> status, src |-> src, dst |-> dst,
     bytes |-> bytes, value |-> value]

Init ==
    /\ store = <<>>
    /\ last = Called("open", "ok", None, None, NoBytes, <<>>)
    /\ inflight = Idle
    /\ racers = [c \in Callers |-> Resting]

\* a call that returns in one step of the store
Returns(op, result, src, dst, bytes) ==
    /\ Quiet
    /\ \E r \in {result} :
          /\ store' = r.store
          /\ last' = Called(op, r.status, src, dst, bytes, r.value)
    /\ UNCHANGED <<inflight, racers>>

Head_(location) ==
    Returns("head", head(store, location), location, None, NoBytes)

Get(location) ==
    Returns("get", get(store, location), location, None, NoBytes)

GetRange(location, start, length) ==
    Returns("get_range", get_range(store, location, start, length),
            location, None, NoBytes)

Put(location, bytes) ==
    Returns("put", put(store, location, bytes), None, location, bytes)

Delete(location) ==
    Returns("delete", delete(store, location), location, None, NoBytes)

List(prefix) ==
    Returns("list", list(store, prefix), prefix, None, NoBytes)

ListWithDelimiter(prefix) ==
    Returns("list_with_delimiter", list_with_delimiter(store, prefix),
            prefix, None, NoBytes)

Copy(src, dst) ==
    Returns("copy", copy(store, src, dst), src, dst, NoBytes)

CopyIfNotExists(src, dst) ==
    Returns("copy_if_not_exists", copy_if_not_exists(store, src, dst),
            src, dst, NoBytes)

\* the first step of a rename: it returns at once when the copy fails
Starts(op, started, src, dst) ==
    /\ Quiet
    /\ UNCHANGED racers
    /\ \E call \in {started} :
          /\ store' = call.step.store
          /\ IF call.step.status = "ok"
             THEN /\ inflight' = [op |-> call.op, src |-> call.src,
                                  dst |-> call.dst, touched |-> FALSE]
                  /\ last' = Called(op, "copied", src, dst, NoBytes, <<>>)
             ELSE /\ inflight' = Idle
                  /\ last' = Called(op, call.step.status, src, dst,
                                    NoBytes, <<>>)

Rename(src, dst) == Starts("rename", rename(store, src, dst), src, dst)

RenameIfNotExists(src, dst) ==
    Starts("rename_if_not_exists", rename_if_not_exists(store, src, dst),
           src, dst)

\* the second step of a rename: the delete of the source
DeleteSource ==
    /\ inflight # Idle
    /\ UNCHANGED racers
    /\ \E r \in {_ObjectStore_delete(store, inflight.src)} :
          /\ store' = r.store
          /\ last' = [last EXCEPT !.status = r.status]
    /\ inflight' = Idle

\* the call fails between the copy and the delete
FailBeforeDelete ==
    /\ inflight # Idle
    /\ UNCHANGED racers
    /\ store' = store
    /\ last' = [last EXCEPT !.status = "IOError"]
    /\ inflight' = Idle

\* a step another caller's call takes while the rename is in flight
Meanwhile(result, p) ==
    /\ inflight # Idle
    /\ \E r \in {result} :
          /\ r.status = "ok"
          /\ store' = r.store
    /\ inflight' = [inflight EXCEPT
                       !.touched = @ \/ p \in {inflight.src, inflight.dst}]
    /\ UNCHANGED <<last, racers>>

PutMeanwhile(location, bytes) ==
    Meanwhile(put(store, location, bytes), _as_path(location))

DeleteMeanwhile(location) ==
    Meanwhile(delete(store, location), _as_path(location))

\* every operation that writes, called one after the other
Next ==
    \/ \E location \in Locations : Head_(location)
    \/ \E location \in Locations : Get(location)
    \/ \E location \in Locations, bytes \in BytesLikes : Put(location, bytes)
    \/ \E location \in Locations : Delete(location)
    \/ \E src \in Locations, dst \in Locations : Copy(src, dst)
    \/ \E src \in Locations, dst \in Locations : CopyIfNotExists(src, dst)
    \/ \E src \in Locations, dst \in Locations : Rename(src, dst)
    \/ \E src \in Locations, dst \in Locations : RenameIfNotExists(src, dst)
    \/ DeleteSource
    \/ FailBeforeDelete
    \/ \E location \in Locations, bytes \in BytesLikes :
          PutMeanwhile(location, bytes)
    \/ \E location \in Locations : DeleteMeanwhile(location)

Spec == Init /\ [][Next]_vars

\* the reads of a store that put and delete fill
NextRead ==
    \/ \E location \in Locations, bytes \in BytesLikes : Put(location, bytes)
    \/ \E location \in Locations : Delete(location)
    \/ \E location \in Locations : Head_(location)
    \/ \E location \in Locations : Get(location)
    \/ \E location \in Locations, start \in Offsets, length \in Offsets :
          GetRange(location, start, length)
    \/ \E prefix \in Prefixes : List(prefix)
    \/ \E prefix \in Prefixes : ListWithDelimiter(prefix)

SpecRead == Init /\ [][NextRead]_vars

\* the stores two callers race on: objects of one or more bytes at any of
\* the three Paths
RaceStores ==
    UNION {[S -> {Buffer(n) : n \in 1..MaxLen}] :
              S \in SUBSET {PathAB, PathA_B, PathA_B_C}}

InitRace ==
    /\ store \in RaceStores
    /\ last = Called("open", "ok", None, None, NoBytes, <<>>)
    /\ inflight = Idle
    /\ racers = [c \in Callers |-> Resting]

\* caller c calls copy_if_not_exists(src, dst)
RaceCall(c, src, dst) ==
    /\ racers[c].pc = "idle"
    /\ racers' =
          [d \in Callers |->
              IF d = c
              THEN [pc |-> "called", src |-> src, dst |-> dst,
                    status |-> "none", before |-> store,
                    overlaps |-> {e \in Callers : racers[e].pc = "called"}]
              ELSE IF racers[d].pc = "called"
              THEN [racers[d] EXCEPT !.overlaps = @ \cup {c}]
              ELSE racers[d]]
    /\ UNCHANGED <<store, last, inflight>>

\* the store serves the call of caller c
RaceServe(c) ==
    /\ racers[c].pc = "called"
    /\ \E r \in {copy_if_not_exists(store, racers[c].src, racers[c].dst)} :
          /\ store' = r.store
          /\ racers' = [racers EXCEPT ![c].pc = "returned",
                                      ![c].status = r.status]
    /\ UNCHANGED <<last, inflight>>

\* both calls have returned: the callers may call again
RaceOver ==
    /\ \A c \in Callers : racers[c].pc = "returned"
    /\ racers' = [c \in Callers |-> Resting]
    /\ UNCHANGED <<store, last, inflight>>

NextRace ==
    \/ \E c \in Callers, src \in Locations, dst \in Locations :
          RaceCall(c, src, dst)
    \/ \E c \in Callers : RaceServe(c)
    \/ RaceOver

SpecRace == InitRace /\ [][NextRace]_vars

-----------------------------------------------------------------------------
(* What the claims are stated in: the Path each argument denotes, written  *)
(* out, and the objects a caller observes.                                 *)

\* the Path a location denotes
Denotes(location) ==
    CASE location = Str(<<"a", "b">>) -> PathAB
      [] location = Str(<<"/", "a", "/", "/", "b", "/">>) -> PathA_B
      [] location = PathValue(PathA_B) -> PathA_B
      [] location = SegmentList(<< <<"a", "/", "b">>, <<"c">> >>) -> PathA_B_C

\* the bytes a caller hands over: a BytesIO stream yields what follows its
\* position
Given(bytes) ==
    IF bytes.kind = "bytes" THEN bytes.val
    ELSE [i \in 1..(Len(bytes.val) - bytes.pos) |-> bytes.val[bytes.pos + i]]

Holds(self, p) == p \in DOMAIN self

\* get(location) returns data
Reads(self, location, data) ==
    /\ get(self, location).status = "ok"
    /\ get(self, location).value = data

\* get(location) and head(location) fail with NotFound
Missing(self, location) ==
    /\ get(self, location).status = "NotFound"
    /\ head(self, location).status = "NotFound"

\* the objects at the Paths other than those of S are the same in self and t
SameElsewhere(self, t, S) ==
    /\ (DOMAIN self) \ S = (DOMAIN t) \ S
    /\ \A q \in (DOMAIN self) \ S : self[q] = t[q]

-----------------------------------------------------------------------------
(* C1: after put(p, b) succeeds, get(p) returns exactly b and head(p)      *)
(* reports the location p and the size len(b), for every location of a     *)
(* non-empty Path and every buffer b, the empty one included, whether or   *)
(* not p held an object before.                                            *)
C1_PutThenGet ==
    [][last'.op = "put" /\ Put(last'.dst, last'.bytes) =>
          /\ last'.status = "ok"
          /\ Reads(store', last'.dst, Given(last'.bytes))
          /\ head(store', last'.dst).status = "ok"
          /\ head(store', last'.dst).value =
                [location |-> Denotes(last'.dst),
                 size |-> Len(Given(last'.bytes))]]_vars

\* the empty buffer has replaced an object, beside another object
C1_Witness ==
    /\ last.op = "put"
    /\ last.status = "ok"
    /\ Denotes(last.dst) = PathA_B_C
    /\ last.bytes.val = <<>>
    /\ Holds(store, PathA_B_C)
    /\ store[PathA_B_C] = <<>>
    /\ Holds(store, PathA_B)
    /\ store[PathA_B] = <<2>>

\* a step that creates the object at p: a put, a copy or a rename to p
Creates(p) ==
    \/ /\ last'.op = "put"
       /\ Denotes(last'.dst) = p
       /\ Put(last'.dst, last'.bytes)
    \/ /\ last'.op = "copy"
       /\ Denotes(last'.dst) = p
       /\ Copy(last'.src, last'.dst)
    \/ /\ last'.op = "copy_if_not_exists"
       /\ Denotes(last'.dst) = p
       /\ CopyIfNotExists(last'.src, last'.dst)
    \/ /\ last'.op = "rename"
       /\ Denotes(last'.dst) = p
       /\ Rename(last'.src, last'.dst)
    \/ /\ last'.op = "rename_if_not_exists"
       /\ Denotes(last'.dst) = p
       /\ RenameIfNotExists(last'.src, last'.dst)
    \/ /\ inflight # Idle
       /\ \E location \in Locations, bytes \in BytesLikes :
             Denotes(location) = p /\ PutMeanwhile(location, bytes)

(* C2: after delete(p) succeeds on an existing object, get(p) and head(p)  *)
(* fail with NotFound and p is not in list(); every other object is        *)
(* unchanged; and p comes back only by a put, a copy or a rename to p.     *)
C2_DeleteRemoves ==
    [][
        /\ last'.op = "delete" /\ Delete(last'.src)
                               /\ Holds(store, Denotes(last'.src)) =>
              /\ last'.status = "ok"
              /\ Missing(store', last'.src)
              /\ \A i \in DOMAIN list(store', None).value :
                    list(store', None).value[i].location # Denotes(last'.src)
              /\ SameElsewhere(store, store', {Denotes(last'.src)})
        /\ \A p \in (DOMAIN store') \ (DOMAIN store) : Creates(p)
      ]_vars

\* an object has been deleted and two others are left
C2_Witness ==
    /\ last.op = "delete"
    /\ last.status = "ok"
    /\ Denotes(last.src) = PathA_B
    /\ DOMAIN store = {PathAB, PathA_B_C}

(* C6: copy(src, dst) with an object at src succeeds, whatever dst held:   *)
(* get(dst) then returns what src held before the copy and src holds it    *)
(* still; with no object at src it fails with NotFound.                    *)
C6_CopyOverwrites ==
    [][last'.op = "copy" /\ Copy(last'.src, last'.dst) =>
          IF Holds(store, Denotes(last'.src))
          THEN /\ last'.status = "ok"
               /\ Reads(store', last'.dst, store[Denotes(last'.src)])
               /\ Reads(store', last'.src, store[Denotes(last'.src)])
          ELSE last'.status = "NotFound"]_vars

\* a copy onto another Path has succeeded
C6_Witness ==
    /\ last.op = "copy"
    /\ last.status = "ok"
    /\ Denotes(last.src) = PathA_B
    /\ Denotes(last.dst) = PathAB
    /\ store[PathAB] = <<1, 2>>
    /\ store[PathA_B] = <<1, 2>>

\* the step is the first step of the call rename(src, dst) recorded in last'
RenameCalled == last'.op = "rename" /\ Rename(last'.src, last'.dst)

\* the step is the delete that ends a rename no other caller has touched
RenameEnds ==
    /\ inflight.op = "rename"
    /\ ~inflight.touched
    /\ DeleteSource
    /\ last'.status = "ok"

\* a rename fails with NotFound when src holds no object, and goes on to
\* its delete when it does
RenameFindsSource ==
    RenameCalled =>
       IF Holds(store, Denotes(last'.src))
       THEN last'.status = "copied" /\ inflight'.op = "rename"
       ELSE last'.status = "NotFound" /\ inflight' = Idle

\* what holds when a rename has succeeded
Renamed ==
    /\ Reads(store', last'.dst, store[Denotes(last'.src)])
    /\ get(store', last'.src).status = "NotFound"

(* C7 as stated: for every src that holds an object and every dst, after   *)
(* rename(src, dst) succeeds get(dst) returns what src held and get(src)   *)
(* fails with NotFound; with no object at src, rename fails with NotFound. *)
C7_Original ==
    [][RenameFindsSource /\ (RenameEnds => Renamed)]_vars

(* C7, amended: the same for every dst that denotes another Path than src. *)
C7_RenameMoves ==
    [][
        /\ RenameFindsSource
        /\ RenameEnds /\ Denotes(last'.src) # Denotes(last'.dst) => Renamed
      ]_vars

\* a rename onto another Path has succeeded
C7_Witness ==
    /\ last.op = "rename"
    /\ last.status = "ok"
    /\ inflight = Idle
    /\ Denotes(last.src) = PathA_B_C
    /\ Denotes(last.dst) = PathA_B
    /\ ~Holds(store, PathA_B_C)
    /\ store[PathA_B] = <<1>>

\* the step is a conditional copy or rename recorded in last'
ConditionalCalled ==
    \/ /\ last'.op = "copy_if_not_exists"
       /\ CopyIfNotExists(last'.src, last'.dst)
    \/ /\ last'.op = "rename_if_not_exists"
       /\ RenameIfNotExists(last'.src, last'.dst)

(* C8: copy_if_not_exists(src, dst) and rename_if_not_exists(src, dst)     *)
(* called while dst holds an object fail with AlreadyExists and change     *)
(* nothing: dst, src and every other object are as before, and no delete   *)
(* of src is left to do.                                                   *)
C8_ConditionalKeepsDst ==
    [][ConditionalCalled /\ Holds(store, Denotes(last'.dst)) =>
          /\ last'.status = "AlreadyExists"
          /\ store' = store
          /\ inflight' = Idle]_vars

\* rename_if_not_exists has failed on a dst that holds other bytes than src
C8_Witness ==
    /\ last.op = "rename_if_not_exists"
    /\ last.status = "AlreadyExists"
    /\ Denotes(last.src) = PathAB
    /\ Denotes(last.dst) = PathA_B
    /\ Holds(store, PathAB)
    /\ Holds(store, PathA_B)
    /\ store[PathAB] = <<1, 2>>
    /\ store[PathA_B] = <<>>

(* C10: rename(src, dst) is the copy and then the delete of the source.    *)
(* After the copy the call is in flight and src and dst both hold what src *)
(* held; while it is in flight, and when it fails before the delete, both  *)
(* are present with identical content, as long as no other caller has      *)
(* written or deleted either; and the delete removes whatever object is at *)
(* src then, without a test that it is the object copied.                  *)
C10_RenameTwoSteps ==
    [][
        /\ RenameCalled /\ Holds(store, Denotes(last'.src)) =>
              /\ inflight'.op = "rename"
              /\ Reads(store', last'.src, store[Denotes(last'.src)])
              /\ Reads(store', last'.dst, store[Denotes(last'.src)])
        /\ inflight'.op = "rename" /\ ~inflight'.touched =>
              /\ Holds(store', Denotes(last'.src))
              /\ Holds(store', Denotes(last'.dst))
              /\ store'[Denotes(last'.src)] = store'[Denotes(last'.dst)]
        /\ inflight.op = "rename" /\ ~inflight.touched /\ FailBeforeDelete =>
              /\ last'.status = "IOError"
              /\ store' = store
              /\ Holds(store', Denotes(last'.src))
              /\ Holds(store', Denotes(last'.dst))
              /\ store'[Denotes(last'.src)] = store'[Denotes(last'.dst)]
        /\ inflight.op = "rename" /\ DeleteSource
                                  /\ Holds(store, Denotes(last'.src)) =>
              /\ last'.status = "ok"
              /\ ~Holds(store', Denotes(last'.src))
      ]_vars

\* a rename has failed between its copy and its delete
C10_Witness ==
    /\ last.op = "rename"
    /\ last.status = "IOError"
    /\ inflight = Idle
    /\ Denotes(last.src) = PathAB
    /\ Denotes(last.dst) = PathA_B_C
    /\ Holds(store, PathAB)
    /\ Holds(store, PathA_B_C)
    /\ store[PathAB] = <<1, 2>>
    /\ store[PathA_B_C] = <<1, 2>>

-----------------------------------------------------------------------------
\* callers c and d have both returned from calls of copy_if_not_exists that
\* overlapped, with the same dst, absent when each called, from sources
\* that held objects
Raced(c, d) ==
    /\ c # d
    /\ racers[c].pc = "returned"
    /\ racers[d].pc = "returned"
    /\ d \in racers[c].overlaps
    /\ Denotes(racers[c].dst) = Denotes(racers[d].dst)
    /\ ~Holds(racers[c].before, Denotes(racers[c].dst))
    /\ ~Holds(racers[d].before, Denotes(racers[d].dst))
    /\ Holds(racers[c].before, Denotes(racers[c].src))
    /\ Holds(racers[d].before, Denotes(racers[d].src))

\* caller c has won against caller d
Won(c, d) ==
    /\ racers[c].status = "ok"
    /\ racers[d].status = "AlreadyExists"
    /\ Reads(store, racers[c].dst,
             racers[c].before[Denotes(racers[c].src)])

-----------------------------------------------------------------------------
(* C3: for an object p holding b, get_range(p, start, length) returns      *)
(* exactly b[start:start+length] when 0 <= start, 0 <= length and          *)
(* start+length <= size(b), fails with InvalidRange when start+length >    *)
(* size(b), and never returns fewer than length bytes; it fails with       *)
(* NotFound when p holds no object.                                        *)
C3_RangeRead ==
    \A location \in Locations, start \in Offsets, length \in Offsets :
       LET r == get_range(store, location, start, length)
           p == Denotes(location)
       IN  IF ~Holds(store, p) THEN r.status = "NotFound"
           ELSE /\ 0 <= start /\ 0 <= length
                              /\ start + length <= Len(store[p]) =>
                      /\ r.status = "ok"
                      /\ r.value = SubSeq(store[p], start + 1, start + length)
                /\ start + length > Len(store[p]) =>
                      r.status = "InvalidRange"
                /\ r.status = "ok" => Len(r.value) = length

\* a range read has returned the second byte of two
C3_Witness ==
    /\ last.op = "get_range"
    /\ last.status = "ok"
    /\ last.value = <<2>>
    /\ store[Denotes(last.src)] = <<1, 2>>

\* the segments a prefix argument stands for, none for the root
Means(prefix) ==
    CASE prefix = None -> <<>>
      [] prefix = Str(<<>>) -> <<>>
      [] prefix = Str(<<"/">>) -> <<>>
      [] prefix = Str(<<"a">>) -> << <<"a">> >>
      [] prefix = Str(<<"a", "/", "b">>) -> PathA_B
      [] prefix = SegmentList(<<>>) -> <<>>
      [] prefix = SegmentList(<< <<"a">>, <<"b">> >>) -> PathA_B
      [] prefix = PathValue(<<>>) -> <<>>

\* p starts with the segments q
StartsWith(p, q) == Len(q) <= Len(p) /\ SubSeq(p, 1, Len(q)) = q

\* the values of a sequence, and whether none comes twice
Range(seq) == {seq[i] : i \in DOMAIN seq}
Once(seq) == Cardinality(Range(seq)) = Len(seq)

(* C4: list(prefix) returns exactly one entry for each stored object whose *)
(* segments start with all the segments of prefix, and nothing else: the   *)
(* prefix a matches a/b and a/b/c and not ab.  With no prefix, or one that *)
(* normalises to the root, it returns every object; on an empty store, the *)
(* empty sequence.                                                         *)
C4_ListBySegments ==
    \A prefix \in Prefixes :
       LET r == list(store, prefix)
           expected == {p \in DOMAIN store : StartsWith(p, Means(prefix))}
       IN  /\ r.status = "ok"
           /\ Range(r.value) =
                 {[location |-> p, size |-> Len(store[p])] : p \in expected}
           /\ Once(r.value)
           /\ Means(prefix) = <<>> => Len(r.value) = Cardinality(DOMAIN store)
           /\ DOMAIN store = {} => r.value = <<>>

\* the prefix a has listed a/b and a/b/c beside the object ab
C4_Witness ==
    /\ last.op = "list"
    /\ last.src = Str(<<"a">>)
    /\ DOMAIN store = {PathAB, PathA_B, PathA_B_C}
    /\ Len(last.value) = 2
    /\ last.value[1].location = PathA_B
    /\ last.value[2].location = PathA_B_C

(* C5: list_with_delimiter(prefix) partitions what is one segment below    *)
(* prefix, or below the root: objects are exactly the stored objects at    *)
(* prefix plus one segment, common_prefixes exactly the Paths prefix plus  *)
(* one segment with a stored object strictly beneath, each once.           *)
C5_ListOneLevel ==
    \A prefix \in Prefixes :
       LET r == list_with_delimiter(store, prefix)
           depth == Len(Means(prefix)) + 1
           under == {p \in DOMAIN store : StartsWith(p, Means(prefix))}
       IN  /\ r.status = "ok"
           /\ Range(r.value.objects) =
                 {[location |-> p, size |-> Len(store[p])] :
                     p \in {q \in under : Len(q) = depth}}
           /\ Once(r.value.objects)
           /\ Range(r.value.common_prefixes) =
                 {SubSeq(p, 1, depth) : p \in {q \in under : Len(q) > depth}}
           /\ Once(r.value.common_prefixes)

\* with ab, a/b and a/b/c stored, the root has the object ab and the one
\* common prefix a
C5_Witness ==
    /\ last.op = "list_with_delimiter"
    /\ last.src = None
    /\ DOMAIN store = {PathAB, PathA_B, PathA_B_C}
    /\ Len(last.value.objects) = 1
    /\ last.value.objects[1].location = PathAB
    /\ last.value.common_prefixes = << << <<"a">> >> >>

=============================================================================
